---- MODULE Spec2Model ----
(***************************************************************************)
(* AB3DMOT-TS: the 3D multi-object tracker (AB3DMOTTracker), its Kalman    *)
(* filter (KalmanFilter3D) and the IoU geometry (utils.ts), as a state     *)
(* machine.                                                                *)
(*                                                                         *)
(* Numbers.  The program computes in IEEE doubles.  Here a number is an    *)
(* integer count of 1/SCALE units (decimal fixed point, three fractional   *)
(* digits); a product or a quotient is rounded to the nearest unit, sums   *)
(* and differences are exact.                                              *)
(*                                                                         *)
(* Objects.  A BoundingBox3D is a JavaScript object and the tracker keeps  *)
(* and hands out references to it (track.bbox = detection.bbox, the        *)
(* shallow copy { ...detections[i], trackId }).  A reference is an index   *)
(* into a heap, a sequence of box values; a Detection, a Track and a       *)
(* TrackedDetection hold the reference in their bbox field.                *)
(***************************************************************************)
EXTENDS Integers, Sequences, FiniteSets, TLC

VARIABLES
    maxAge,         \* AB3DMOTTracker.maxAge
    minHits,        \* AB3DMOTTracker.minHits
    iouThreshold,   \* AB3DMOTTracker.iouThreshold
    tracks,         \* AB3DMOTTracker.tracks: Track[]
    nextTrackId,    \* AB3DMOTTracker.nextTrackId
    heap,           \* the caller's BoundingBox3D objects, by reference
    frames,         \* the frames handed to step/update so far: Detection[][]
    given,          \* the value each BoundingBox3D had when it was handed in
    outputs,        \* what each step call returned: TrackedDetection[][]
    seen,           \* the box values of each returned list when it was returned
    calls,          \* what is kept of each step/update call, in order
    updated,        \* what the latest update call returned: Track[]
    heap2,          \* the BoundingBox3D objects of the batch frames (copies)
    batch,          \* what each batch run returned, in order
    hungarian,      \* a HungarianAlgorithm call: its cost matrix and its result
    geometry,       \* a calculate3DIoU call: its two boxes and its result
    kalman          \* a KalmanFilter3D and what is kept of its latest call

vars == <<maxAge, minHits, iouThreshold, tracks, nextTrackId, heap, frames,
          given, outputs, seen, calls, updated, heap2, batch, hungarian,
          geometry, kalman>>

\* the variables of the tracker, and those of the calls of the helpers
trackerVars == <<maxAge, minHits, iouThreshold, tracks, nextTrackId, heap,
                 frames, given, outputs, seen, calls, updated, heap2, batch>>

helperVars == <<hungarian, geometry, kalman>>

-----------------------------------------------------------------------------
(* Bounds of the model *)

\* number of frames handed to one tracker
MaxFrames == 3

\* number of detections handed to one tracker, over all its frames
MaxDetections == 4

-----------------------------------------------------------------------------
(* Numbers *)

\* one unit of the program's numbers
SCALE == 1000

\* a / b rounded to the nearest integer (b # 0)
RoundDiv(a, b) ==
    IF b > 0 THEN (a \div b) + (IF 2 * (a % b) >= b THEN 1 ELSE 0)
             ELSE ((-a) \div (-b)) + (IF 2 * ((-a) % (-b)) >= -b THEN 1 ELSE 0)

\* a * b
FMul(a, b) == IF a = 0 \/ b = 0 THEN 0 ELSE RoundDiv(a * b, SCALE)

\* a / b
FDiv(a, b) == RoundDiv(a * SCALE, b)

\* Math.max, Math.min, Math.abs
MathMax(a, b) == IF a >= b THEN a ELSE b
MathMin(a, b) == IF a <= b THEN a ELSE b
MathAbs(a) == IF a < 0 THEN -a ELSE a

\* The value of a block: Only({e : x \in {d}}) is e with x naming the value
\* of d, which is how this module writes "const x = d; ... e".
Only(S) == CHOOSE v \in S : TRUE

\* options.name ?? dflt: an option that is not given is an absent field
Option(options, name, dflt) ==
    IF name \in DOMAIN options THEN options[name] ELSE dflt

-----------------------------------------------------------------------------
(* utils.ts *)

\* variants of the functions below: the overlap along x measured from the
\* first box's lower face, the sum of the volumes taken for the union, and
\* the intersection taken out of the union twice
calculateIntersectionFromFirst(bbox1, bbox2) ==
    LET x1Min == bbox1.x - FDiv(bbox1.width, 2 * SCALE)
        x1Max == bbox1.x + FDiv(bbox1.width, 2 * SCALE)
        y1Min == bbox1.y - FDiv(bbox1.height, 2 * SCALE)
        y1Max == bbox1.y + FDiv(bbox1.height, 2 * SCALE)
        z1Min == bbox1.z - FDiv(bbox1.length, 2 * SCALE)
        z1Max == bbox1.z + FDiv(bbox1.length, 2 * SCALE)
        x2Min == bbox2.x - FDiv(bbox2.width, 2 * SCALE)
        x2Max == bbox2.x + FDiv(bbox2.width, 2 * SCALE)
        y2Min == bbox2.y - FDiv(bbox2.height, 2 * SCALE)
        y2Max == bbox2.y + FDiv(bbox2.height, 2 * SCALE)
        z2Min == bbox2.z - FDiv(bbox2.length, 2 * SCALE)
        z2Max == bbox2.z + FDiv(bbox2.length, 2 * SCALE)
        xOverlap == MathMax(0, MathMin(x1Max, x2Max) - x1Min)
        yOverlap == MathMax(0, MathMin(y1Max, y2Max) - MathMax(y1Min, y2Min))
        zOverlap == MathMax(0, MathMin(z1Max, z2Max) - MathMax(z1Min, z2Min))
    IN  FMul(FMul(xOverlap, yOverlap), zOverlap)

calculateIntersection3D(bbox1, bbox2) ==
    LET x1Min == bbox1.x - FDiv(bbox1.width, 2 * SCALE)
        x1Max == bbox1.x + FDiv(bbox1.width, 2 * SCALE)
        y1Min == bbox1.y - FDiv(bbox1.height, 2 * SCALE)
        y1Max == bbox1.y + FDiv(bbox1.height, 2 * SCALE)
        z1Min == bbox1.z - FDiv(bbox1.length, 2 * SCALE)
        z1Max == bbox1.z + FDiv(bbox1.length, 2 * SCALE)
        x2Min == bbox2.x - FDiv(bbox2.width, 2 * SCALE)
        x2Max == bbox2.x + FDiv(bbox2.width, 2 * SCALE)
        y2Min == bbox2.y - FDiv(bbox2.height, 2 * SCALE)
        y2Max == bbox2.y + FDiv(bbox2.height, 2 * SCALE)
        z2Min == bbox2.z - FDiv(bbox2.length, 2 * SCALE)
        z2Max == bbox2.z + FDiv(bbox2.length, 2 * SCALE)
        xOverlap == MathMax(0, MathMin(x1Max, x2Max) - MathMax(x1Min, x2Min))
        yOverlap == MathMax(0, MathMin(y1Max, y2Max) - MathMax(y1Min, y2Min))
        zOverlap == MathMax(0, MathMin(z1Max, z2Max) - MathMax(z1Min, z2Min))
    IN  FMul(FMul(xOverlap, yOverlap), zOverlap)

calculate3DIoUOverSum(bbox1, bbox2) ==
    Only({ IF union > 0 THEN FDiv(intersection, union) ELSE 0 :
           intersection \in {calculateIntersection3D(bbox1, bbox2)},
           union \in {FMul(FMul(bbox1.width, bbox1.height), bbox1.length)
                      + FMul(FMul(bbox2.width, bbox2.height), bbox2.length)} })

calculate3DIoUTwiceOut(bbox1, bbox2) ==
    Only({ IF union > 0 THEN FDiv(intersection, union) ELSE 0 :
           intersection \in {calculateIntersection3D(bbox1, bbox2)},
           union \in {FMul(FMul(bbox1.width, bbox1.height), bbox1.length)
                      + FMul(FMul(bbox2.width, bbox2.height), bbox2.length)
                      - 2 * calculateIntersection3D(bbox1, bbox2)} })

calculate3DIoU(bbox1, bbox2) ==
    Only({
    LET volume1 == FMul(FMul(bbox1.width, bbox1.height), bbox1.length)
        volume2 == FMul(FMul(bbox2.width, bbox2.height), bbox2.length)
    IN  Only({ IF union > 0 THEN FDiv(intersection, union) ELSE 0 :
               union \in {volume1 + volume2 - intersection} })
    : intersection \in {calculateIntersection3D(bbox1, bbox2)} })

-----------------------------------------------------------------------------
(* kalman.ts: KalmanFilter3D *)

\* A number[] or number[][] of the filter, built element by element as the
\* loops of the matrix helpers do: the array holding the elements of f, each
\* computed once.
NewArray(f) == SubSeq(f, 1, Len(f))

\* result[i][j] = 0; result[i][j] += A[i][k] * B[k][j] for every k, in order;
\* B has 3 or 6 rows
matrixMultiplySum(A, B, i, j) ==
    IF Len(B) = 3
    THEN FMul(A[i][1], B[1][j]) + FMul(A[i][2], B[2][j]) + FMul(A[i][3], B[3][j])
    ELSE FMul(A[i][1], B[1][j]) + FMul(A[i][2], B[2][j]) + FMul(A[i][3], B[3][j])
       + FMul(A[i][4], B[4][j]) + FMul(A[i][5], B[5][j]) + FMul(A[i][6], B[6][j])

matrixMultiply(A, B) ==
    NewArray([i \in 1..Len(A) |->
        NewArray([j \in 1..Len(B[1]) |-> matrixMultiplySum(A, B, i, j)])])

\* result[i] = 0; result[i] += A[i][j] * v[j] for every j, in order; v has 3 or
\* 6 elements
matrixVectorMultiplySum(A, v, i) ==
    IF Len(v) = 3
    THEN FMul(A[i][1], v[1]) + FMul(A[i][2], v[2]) + FMul(A[i][3], v[3])
    ELSE FMul(A[i][1], v[1]) + FMul(A[i][2], v[2]) + FMul(A[i][3], v[3])
       + FMul(A[i][4], v[4]) + FMul(A[i][5], v[5]) + FMul(A[i][6], v[6])

matrixVectorMultiply(A, v) ==
    NewArray([i \in 1..Len(A) |-> matrixVectorMultiplySum(A, v, i)])

matrixTranspose(A) ==
    NewArray([i \in 1..Len(A[1]) |-> NewArray([j \in 1..Len(A) |-> A[j][i]])])

matrixAdd(A, B) ==
    NewArray([i \in 1..Len(A) |->
        NewArray([j \in 1..Len(A[i]) |-> A[i][j] + B[i][j]])])

matrixSubtract(A, B) ==
    NewArray([i \in 1..Len(A) |->
        NewArray([j \in 1..Len(A[i]) |-> A[i][j] - B[i][j]])])

createIdentityMatrix(size) ==
    NewArray([i \in 1..size |->
        NewArray([j \in 1..size |-> IF i = j THEN SCALE ELSE 0])])

\* Math.abs(det) < 1e-10.  1e-10 lies strictly between 0 and one unit, so a
\* determinant is below it exactly when it is 0 units.
BelowSingularTolerance(det) == MathAbs(det) < 1

\* Returns [threw |-> TRUE] for "throw new Error(...)", and the inverse in
\* the field value otherwise.  Indices are the source's plus one.
\* a variant of matrixInverse that never throws
matrixInverseAsIdentity(A) ==
    [threw |-> FALSE, value |-> createIdentityMatrix(3)]

matrixInverse(A) ==
    IF Len(A) # 3 \/ Len(A[1]) # 3 THEN [threw |-> TRUE]
    ELSE
    Only({
      IF BelowSingularTolerance(det) THEN [threw |-> TRUE]
      ELSE
      Only({
        [threw |-> FALSE,
         value |-> <<
           << FMul(FMul(A[2][2], A[3][3]) - FMul(A[2][3], A[3][2]), invDet),
              FMul(FMul(A[1][3], A[3][2]) - FMul(A[1][2], A[3][3]), invDet),
              FMul(FMul(A[1][2], A[2][3]) - FMul(A[1][3], A[2][2]), invDet) >>,
           << FMul(FMul(A[2][3], A[3][1]) - FMul(A[2][1], A[3][3]), invDet),
              FMul(FMul(A[1][1], A[3][3]) - FMul(A[1][3], A[3][1]), invDet),
              FMul(FMul(A[1][3], A[2][1]) - FMul(A[1][1], A[2][3]), invDet) >>,
           << FMul(FMul(A[2][1], A[3][2]) - FMul(A[2][2], A[3][1]), invDet),
              FMul(FMul(A[1][2], A[3][1]) - FMul(A[1][1], A[3][2]), invDet),
              FMul(FMul(A[1][1], A[2][2]) - FMul(A[1][2], A[2][1]), invDet) >>
         >>]
      : invDet \in {FDiv(SCALE, det)} })
    : det \in {
          FMul(A[1][1], FMul(A[2][2], A[3][3]) - FMul(A[2][3], A[3][2]))
        - FMul(A[1][2], FMul(A[2][1], A[3][3]) - FMul(A[2][3], A[3][1]))
        + FMul(A[1][3], FMul(A[2][1], A[3][2]) - FMul(A[2][2], A[3][1])) } })

\* a variant of the function below: noise that does not depend on dt
createProcessNoiseMatrixConstant(q, dt) ==
    << <<q, 0, 0, 0, 0, 0>>,
       <<0, q, 0, 0, 0, 0>>,
       <<0, 0, q, 0, 0, 0>>,
       <<0, 0, 0, q, 0, 0>>,
       <<0, 0, 0, 0, q, 0>>,
       <<0, 0, 0, 0, 0, q>> >>

createProcessNoiseMatrix(q, dt) ==
    Only({
      Only({ << <<pp, 0, 0, pv, 0, 0>>,
                <<0, pp, 0, 0, pv, 0>>,
                <<0, 0, pp, 0, 0, pv>>,
                <<pv, 0, 0, vv, 0, 0>>,
                <<0, pv, 0, 0, vv, 0>>,
                <<0, 0, pv, 0, 0, vv>> >>
           : pp \in {FMul(FDiv(dt4, 4 * SCALE), q)},
             pv \in {FMul(FDiv(dt3, 2 * SCALE), q)},
             vv \in {FMul(dt2, q)} })
    : dt2 \in {FMul(dt, dt)},
      dt3 \in {FMul(FMul(dt, dt), dt)},
      dt4 \in {FMul(FMul(FMul(dt, dt), dt), dt)} })

\* new KalmanFilter3D(initialBbox, processNoise, measurementNoise)
KalmanFilter3D(initialBbox, processNoise, measurementNoise) ==
    [state |-> <<initialBbox.x, initialBbox.y, initialBbox.z, 0, 0, 0>>,
     processNoise |-> processNoise,
     measurementNoise |-> measurementNoise,
     covariance |-> << <<SCALE, 0, 0, 0, 0, 0>>,
                       <<0, SCALE, 0, 0, 0, 0>>,
                       <<0, 0, SCALE, 0, 0, 0>>,
                       <<0, 0, 0, SCALE, 0, 0>>,
                       <<0, 0, 0, 0, SCALE, 0>>,
                       <<0, 0, 0, 0, 0, SCALE>> >>]

\* kf.predict(dt): the filter after the call
predict(kf, dt) ==
    LET F == << <<SCALE, 0, 0, dt, 0, 0>>,
                <<0, SCALE, 0, 0, dt, 0>>,
                <<0, 0, SCALE, 0, 0, dt>>,
                <<0, 0, 0, SCALE, 0, 0>>,
                <<0, 0, 0, 0, SCALE, 0>>,
                <<0, 0, 0, 0, 0, SCALE>> >>
        Q == createProcessNoiseMatrix(kf.processNoise, dt)
    IN  [kf EXCEPT
           !.state = matrixVectorMultiply(F, kf.state),
           !.covariance =
               matrixAdd(
                   matrixMultiply(matrixMultiply(F, kf.covariance),
                                  matrixTranspose(F)),
                   Q)]

\* kf.update(measurement): [threw, kf], kf the filter after the call.  The
\* inverse is computed before anything is assigned, so a throw leaves the
\* filter as it was.
update(kf, measurement) ==
    LET H == << <<SCALE, 0, 0, 0, 0, 0>>,
                <<0, SCALE, 0, 0, 0, 0>>,
                <<0, 0, SCALE, 0, 0, 0>> >>
        R == << <<kf.measurementNoise, 0, 0>>,
                <<0, kf.measurementNoise, 0>>,
                <<0, 0, kf.measurementNoise>> >>
        I == createIdentityMatrix(6)
    IN
    Only({ Only({ Only({
      IF Sinv.threw THEN [threw |-> TRUE, kf |-> kf]
      ELSE
      Only({ Only({ Only({ Only({
        [threw |-> FALSE,
         kf |-> [kf EXCEPT
                   !.state = NewArray([i \in 1..Len(kf.state) |->
                                         kf.state[i] + correction[i]]),
                   !.covariance = matrixMultiply(IminusKH, kf.covariance)]]
        : IminusKH \in {matrixSubtract(I, matrixMultiply(K, H))} })
        : correction \in {matrixVectorMultiply(K, residual)} })
        : residual \in {<< measurement[1] - predictedMeasurement[1],
                           measurement[2] - predictedMeasurement[2],
                           measurement[3] - predictedMeasurement[3] >>} })
        : K \in {matrixMultiply(matrixMultiply(kf.covariance, Ht), Sinv.value)},
          predictedMeasurement \in {matrixVectorMultiply(H, kf.state)} })
      : Sinv \in {matrixInverse(S)} })
      : S \in {matrixAdd(matrixMultiply(matrixMultiply(H, kf.covariance), Ht),
                         R)} })
      : Ht \in {matrixTranspose(H)} })

getPosition(kf) == <<kf.state[1], kf.state[2], kf.state[3]>>

getVelocity(kf) == <<kf.state[4], kf.state[5], kf.state[6]>>

-----------------------------------------------------------------------------
(* The tracker of part_001: AB3DMOTTracker with a Kalman filter per track *)

\* The tracker object ("this") is a record self with the fields tracks,
\* nextTrackId, maxAge, minHits, iouThreshold and frames.  A Track is a record
\* with the fields of the Track interface; bbox is a reference into the heap
\* h, and a track without the optional kalmanFilter lacks the field.
\* Array indices (assignments, track indices, the keys of newTrackMap) are the
\* source's, from 0, with -1 for "none"; the k-th element of an array a (from
\* 0) is a[k + 1].

\* the processNoise and measurementNoise handed to new KalmanFilter3D
ProcessNoise == 100
MeasurementNoise == 100

\* the dt handed to kalmanFilter.predict
FrameDt == 1000

\* the defaults of the fields maxAge, minHits and iouThreshold
DefaultMaxAge == 3
DefaultMinHits == 3
DefaultIouThreshold == 300

\* new AB3DMOTTracker(options)
AB3DMOTTracker(options) ==
    [tracks |-> <<>>,
     nextTrackId |-> 1,
     maxAge |-> Option(options, "maxAge", DefaultMaxAge),
     minHits |-> Option(options, "minHits", DefaultMinHits),
     iouThreshold |-> Option(options, "iouThreshold", DefaultIouThreshold),
     frames |-> Option(options, "data", <<>>)]

HasKalmanFilter(track) == "kalmanFilter" \in DOMAIN track

\* the forEach of predictTracks from the t-th track (from 1) on: [tracks, heap]
RECURSIVE predictTracksFrom(_, _, _)
predictTracksFrom(ts, h, t) ==
    IF t > Len(ts) THEN [tracks |-> ts, heap |-> h]
    ELSE IF HasKalmanFilter(ts[t])
    THEN Only({ Only({
           predictTracksFrom(
               [ts EXCEPT ![t] = [@ EXCEPT !.age = @ + 1,
                                           !.timeSinceUpdate = @ + 1,
                                           !.kalmanFilter = kf,
                                           !.velocity = velocity]],
               [h EXCEPT ![ts[t].bbox] = [@ EXCEPT !.x = position[1],
                                                   !.y = position[2],
                                                   !.z = position[3]]],
               t + 1)
           : position \in {getPosition(kf)}, velocity \in {getVelocity(kf)} })
           : kf \in {predict(ts[t].kalmanFilter, FrameDt)} })
    ELSE predictTracksFrom(
             [ts EXCEPT ![t] = [@ EXCEPT !.age = @ + 1,
                                         !.timeSinceUpdate = @ + 1]],
             h, t + 1)

\* a variant of predictTracks that makes every track two frames older
predictTracksTwice(ts, h) ==
    Only({ predictTracksFrom(once.tracks, once.heap, 1)
           : once \in {predictTracksFrom(ts, h, 1)} })

predictTracks(ts, h) == predictTracksFrom(ts, h, 1)

\* a variant of bestTrackFromLast that takes the last of the tracks with the
\* highest overlap
RECURSIVE bestTrackFromLast(_, _, _, _, _, _, _)
bestTrackFromLast(bbox, ts, h, usedTracks, t, bestTrackIndex, bestIoU) ==
    IF t >= Len(ts)
    THEN [bestTrackIndex |-> bestTrackIndex, bestIoU |-> bestIoU]
    ELSE IF t \in usedTracks
    THEN bestTrackFromLast(bbox, ts, h, usedTracks, t + 1, bestTrackIndex, bestIoU)
    ELSE Only({
           IF iou >= bestIoU
           THEN bestTrackFromLast(bbox, ts, h, usedTracks, t + 1, t, iou)
           ELSE bestTrackFromLast(bbox, ts, h, usedTracks, t + 1,
                              bestTrackIndex, bestIoU)
           : iou \in {calculate3DIoU(h[bbox], h[ts[t + 1].bbox])} })

\* the inner loop of associateDetections from track index t on:
\* [bestTrackIndex, bestIoU]
RECURSIVE bestTrackFrom(_, _, _, _, _, _, _)
bestTrackFrom(bbox, ts, h, usedTracks, t, bestTrackIndex, bestIoU) ==
    IF t >= Len(ts)
    THEN [bestTrackIndex |-> bestTrackIndex, bestIoU |-> bestIoU]
    ELSE IF t \in usedTracks
    THEN bestTrackFrom(bbox, ts, h, usedTracks, t + 1, bestTrackIndex, bestIoU)
    ELSE Only({
           IF iou > bestIoU
           THEN bestTrackFrom(bbox, ts, h, usedTracks, t + 1, t, iou)
           ELSE bestTrackFrom(bbox, ts, h, usedTracks, t + 1,
                              bestTrackIndex, bestIoU)
           : iou \in {calculate3DIoU(h[bbox], h[ts[t + 1].bbox])} })

\* a variant of AcceptMatch with the comparison turned round
AcceptMatchBelow(bestTrackIndex, bestIoU, threshold) ==
    bestTrackIndex # -1 /\ bestIoU <= threshold

\* whether the best track found is taken as the detection's match
AcceptMatch(bestTrackIndex, bestIoU, threshold) ==
    bestTrackIndex # -1 /\ bestIoU >= threshold

\* the outer loop of associateDetections from detection index i on
RECURSIVE associateFrom(_, _, _, _, _, _, _)
associateFrom(detections, ts, h, threshold, i, assignments, usedTracks) ==
    IF i >= Len(detections) THEN assignments
    ELSE
    Only({
      IF AcceptMatch(best.bestTrackIndex, best.bestIoU, threshold)
      THEN associateFrom(detections, ts, h, threshold, i + 1,
                         [assignments EXCEPT ![i + 1] = best.bestTrackIndex],
                         usedTracks \cup {best.bestTrackIndex})
      ELSE associateFrom(detections, ts, h, threshold, i + 1,
                         assignments, usedTracks)
      : best \in {bestTrackFrom(detections[i + 1].bbox, ts, h, usedTracks,
                                0, -1, -SCALE)} })

associateDetections(detections, ts, h, threshold) ==
    associateFrom(detections, ts, h, threshold, 0,
                  [i \in 1..Len(detections) |-> -1], {})

\* the loop of updateTracks from detection index i on: [tracks, threw]; a
\* throw of kalmanFilter.update leaves the loop with the track already
\* changed and the later detections not looked at
RECURSIVE updateTracksFrom(_, _, _, _, _)
updateTracksFrom(detections, assignments, ts, h, i) ==
    IF i >= Len(detections) THEN [tracks |-> ts, threw |-> FALSE]
    ELSE IF assignments[i + 1] = -1
    THEN updateTracksFrom(detections, assignments, ts, h, i + 1)
    ELSE
    Only({ Only({
      IF HasKalmanFilter(matched)
      THEN Only({
             IF u.threw
             THEN [tracks |-> [ts EXCEPT ![trackIndex + 1] = matched],
                   threw |-> TRUE]
             ELSE updateTracksFrom(
                      detections, assignments,
                      [ts EXCEPT ![trackIndex + 1] =
                          [matched EXCEPT !.kalmanFilter = u.kf]],
                      h, i + 1)
             : u \in {update(matched.kalmanFilter,
                             <<h[detection.bbox].x, h[detection.bbox].y,
                               h[detection.bbox].z>>)} })
      ELSE updateTracksFrom(detections, assignments,
                            [ts EXCEPT ![trackIndex + 1] = matched],
                            h, i + 1)
      : matched \in {[ts[trackIndex + 1] EXCEPT !.bbox = detection.bbox,
                                                !.timeSinceUpdate = 0,
                                                !.hits = @ + 1]} })
      : trackIndex \in {assignments[i + 1]}, detection \in {detections[i + 1]} })

\* variants of updateTracks: one that leaves the matched tracks as they are,
\* and one that counts every match twice
updateTracksSkipped(detections, assignments, ts, h) ==
    [tracks |-> ts, threw |-> FALSE]

updateTracksTwice(detections, assignments, ts, h) ==
    Only({ updateTracksFrom(detections, assignments, once.tracks, h, 0)
           : once \in {updateTracksFrom(detections, assignments, ts, h, 0)} })

updateTracks(detections, assignments, ts, h) ==
    updateTracksFrom(detections, assignments, ts, h, 0)

\* variants of NewId that the id properties must tell from it: the id 1
\* handed out again and again, and the id after the one that is due
NewIdReused(nextId) == 1

NewIdAhead(nextId) == nextId + 1

\* this.nextTrackId++ : the id handed out
NewId(nextId) == nextId

\* the loop of createNewTracks from detection index i on:
\* [tracks, nextTrackId, newMap], newMap a function from detection indices
RECURSIVE createNewTracksFrom(_, _, _, _, _, _, _)
createNewTracksFrom(detections, assignments, ts, nextId, h, i, newMap) ==
    IF i >= Len(detections)
    THEN [tracks |-> ts, nextTrackId |-> nextId, newMap |-> newMap]
    ELSE IF assignments[i + 1] # -1
    THEN createNewTracksFrom(detections, assignments, ts, nextId, h, i + 1, newMap)
    ELSE
    Only({
      createNewTracksFrom(
          detections, assignments,
          Append(ts, [id |-> newId,
                      bbox |-> detection.bbox,
                      velocity |-> <<0, 0, 0>>,
                      age |-> 1,
                      hits |-> 1,
                      timeSinceUpdate |-> 0,
                      kalmanFilter |-> KalmanFilter3D(h[detection.bbox],
                                                      ProcessNoise,
                                                      MeasurementNoise)]),
          nextId + 1, h, i + 1, (i :> newId) @@ newMap)
      : newId \in {NewId(nextId)}, detection \in {detections[i + 1]} })

createNewTracks(detections, assignments, ts, nextId, h) ==
    createNewTracksFrom(detections, assignments, ts, nextId, h, 0, <<>>)

\* a variant of KeepTrack that never drops a track
KeepTrackAlways(track, maxAge_) == TRUE

\* a variant of KeepTrack that drops a track one frame early
KeepTrackYounger(track, maxAge_) == track.timeSinceUpdate < maxAge_

\* the filter of deleteOldTracks
KeepTrack(track, maxAge_) == track.timeSinceUpdate <= maxAge_

\* a variant of deleteOldTracks that drops nothing
deleteNothing(ts, maxAge_) == ts

deleteOldTracks(ts, maxAge_) ==
    SelectSeq(ts, LAMBDA track : KeepTrack(track, maxAge_))

\* { ...detection, trackId }
TrackedDetection(detection, trackId) ==
    [bbox |-> detection.bbox, confidence |-> detection.confidence,
     trackId |-> trackId]

\* step 6 of step, from detection index i on: the result list
RECURSIVE assembleFrom(_, _, _, _, _, _)
assembleFrom(detections, assignments, ts, newTrackMap, i, result) ==
    IF i >= Len(detections) THEN result
    ELSE IF assignments[i + 1] # -1 /\ assignments[i + 1] + 1 \in DOMAIN ts
    THEN assembleFrom(detections, assignments, ts, newTrackMap, i + 1,
             Append(result, TrackedDetection(detections[i + 1],
                                             ts[assignments[i + 1] + 1].id)))
    ELSE IF i \in DOMAIN newTrackMap
    THEN assembleFrom(detections, assignments, ts, newTrackMap, i + 1,
             Append(result, TrackedDetection(detections[i + 1],
                                             newTrackMap[i])))
    ELSE assembleFrom(detections, assignments, ts, newTrackMap, i + 1, result)

\* self.step(detections) on the heap h: the tracker and the heap after the
\* call, whether the call threw, the list it returned, and its intermediate
\* results (the assignments, the track table after updateTracks, newTrackMap)
step(self, detections, h) ==
    Only({ Only({ Only({
      IF upd.threw
      THEN [self |-> [self EXCEPT !.tracks = upd.tracks],
            heap |-> predicted.heap, threw |-> TRUE, result |-> <<>>,
            assignments |-> assignments, matched |-> upd.tracks,
            newTrackMap |-> <<>>]
      ELSE
      Only({ Only({
        [self |-> [self EXCEPT !.tracks = created.tracks,
                               !.nextTrackId = created.nextTrackId],
         heap |-> predicted.heap, threw |-> FALSE,
         result |-> assembleFrom(detections, assignments, created.tracks,
                                 created.newMap, 0, <<>>),
         assignments |-> assignments, matched |-> upd.tracks,
         newTrackMap |-> created.newMap]
        : created \in {createNewTracks(detections, assignments, kept,
                                       self.nextTrackId, predicted.heap)} })
        : kept \in {deleteOldTracks(upd.tracks, self.maxAge)} })
      : upd \in {updateTracks(detections, assignments, predicted.tracks,
                              predicted.heap)} })
      : assignments \in {associateDetections(detections, predicted.tracks,
                                             predicted.heap,
                                             self.iouThreshold)} })
      : predicted \in {predictTracks(self.tracks, h)} })

\* the loop of run from frame index k on: [self, heap, outputs]
RECURSIVE runFrom(_, _, _, _)
runFrom(self, h, k, outs) ==
    IF k >= Len(self.frames) THEN [self |-> self, heap |-> h, outputs |-> outs]
    ELSE Only({ runFrom(r.self, r.heap, k + 1, Append(outs, r.result))
                : r \in {step(self, self.frames[k + 1], h)} })

\* self.run() on the heap h
run(self, h) == runFrom(self, h, 0, <<>>)

\* { ...options, data: frames }
WithData(options, frames_) ==
    [name \in DOMAIN options \cup {"data"} |->
        IF name = "data" THEN frames_ ELSE options[name]]

\* trackBatch(frames, options) on the heap h: [heap, outputs]
trackBatch(frames_, options, h) ==
    Only({ [heap |-> r.heap, outputs |-> r.outputs]
           : r \in {run(AB3DMOTTracker(WithData(options, frames_)), h)} })

-----------------------------------------------------------------------------
(* The tracker of index.ts, lines 10 to 204: AB3DMOTTracker without a      *)
(* Kalman filter, with update and step.  Its constructor, its              *)
(* associateDetections, its deleteOldTracks and its calculate3DIoU are     *)
(* word for word those of part_001 and are not repeated.                   *)

Index_predictTracks(ts) ==
    [t \in 1..Len(ts) |->
        [ts[t] EXCEPT !.age = @ + 1, !.timeSinceUpdate = @ + 1]]

\* the loop of updateTracks from detection index i on
RECURSIVE Index_updateTracksFrom(_, _, _, _)
Index_updateTracksFrom(detections, assignments, ts, i) ==
    IF i >= Len(detections) THEN ts
    ELSE IF assignments[i + 1] = -1
    THEN Index_updateTracksFrom(detections, assignments, ts, i + 1)
    ELSE Index_updateTracksFrom(
             detections, assignments,
             [ts EXCEPT ![assignments[i + 1] + 1] =
                 [@ EXCEPT !.bbox = detections[i + 1].bbox,
                           !.timeSinceUpdate = 0,
                           !.hits = @ + 1]],
             i + 1)

Index_updateTracks(detections, assignments, ts) ==
    Index_updateTracksFrom(detections, assignments, ts, 0)

\* the loop of createNewTracks from detection index i on
RECURSIVE Index_createNewTracksFrom(_, _, _, _, _, _)
Index_createNewTracksFrom(detections, assignments, ts, nextId, i, newMap) ==
    IF i >= Len(detections)
    THEN [tracks |-> ts, nextTrackId |-> nextId, newMap |-> newMap]
    ELSE IF assignments[i + 1] # -1
    THEN Index_createNewTracksFrom(detections, assignments, ts, nextId, i + 1,
                                   newMap)
    ELSE Index_createNewTracksFrom(
             detections, assignments,
             Append(ts, [id |-> nextId,
                         bbox |-> detections[i + 1].bbox,
                         velocity |-> <<0, 0, 0>>,
                         age |-> 1,
                         hits |-> 1,
                         timeSinceUpdate |-> 0]),
             nextId + 1, i + 1, (i :> nextId) @@ newMap)

Index_createNewTracks(detections, assignments, ts, nextId) ==
    Index_createNewTracksFrom(detections, assignments, ts, nextId, 0, <<>>)

\* the pipeline that update and step of index.ts both run: predict,
\* associate, update, create, delete.  The result has the fields of step's.
Index_pipeline(self, detections, h) ==
    Only({ Only({ Only({ Only({ Only({
      [self |-> [self EXCEPT !.tracks = kept,
                             !.nextTrackId = created.nextTrackId],
       heap |-> h, threw |-> FALSE, result |-> <<>>,
       assignments |-> assignments, matched |-> matched,
       newTrackMap |-> created.newMap]
      : kept \in {deleteOldTracks(created.tracks, self.maxAge)} })
      : created \in {Index_createNewTracks(detections, assignments, matched,
                                           self.nextTrackId)} })
      : matched \in {Index_updateTracks(detections, assignments, predicted)} })
      : assignments \in {associateDetections(detections, predicted, h,
                                             self.iouThreshold)} })
      : predicted \in {Index_predictTracks(self.tracks)} })

\* a variant of Confirmed that asks for one hit more
ConfirmedLater(track, minHits_) == track.hits > minHits_

\* the filter of update's return statement
Confirmed(track, minHits_) == track.hits >= minHits_

\* self.update(detections): the pipeline's record, result being the Track[]
\* returned
Index_update(self, detections, h) ==
    Only({ [r EXCEPT !.result =
               SelectSeq(r.self.tracks,
                         LAMBDA track : Confirmed(track, self.minHits))]
           : r \in {Index_pipeline(self, detections, h)} })

\* self.step(detections)
Index_step(self, detections, h) ==
    Only({ Only({ Only({ Only({ Only({
      [self |-> [self EXCEPT !.tracks = kept,
                             !.nextTrackId = created.nextTrackId],
       heap |-> h, threw |-> FALSE,
       result |-> assembleFrom(detections, assignments, kept,
                               created.newMap, 0, <<>>),
       assignments |-> assignments, matched |-> matched,
       newTrackMap |-> created.newMap]
      : kept \in {deleteOldTracks(created.tracks, self.maxAge)} })
      : created \in {Index_createNewTracks(detections, assignments, matched,
                                           self.nextTrackId)} })
      : matched \in {Index_updateTracks(detections, assignments, predicted)} })
      : assignments \in {associateDetections(detections, predicted, h,
                                             self.iouThreshold)} })
      : predicted \in {Index_predictTracks(self.tracks)} })

-----------------------------------------------------------------------------
(* The callers' inputs *)

\* the boxes a detection may have: the README's box of size (2, 2, 2) at the
\* origin, the same box moved by 1 along x (overlap 1/3 with the first) and
\* moved by 4 (no overlap with either)
Box(x_) == [x |-> x_, y |-> 0, z |-> 0, width |-> 2 * SCALE,
            height |-> 2 * SCALE, length |-> 2 * SCALE, orientation |-> 0]

Boxes == {Box(0), Box(SCALE), Box(4 * SCALE)}

\* the confidence of a detection (it is copied, never read)
Confidence == 900

\* the options a tracker is constructed with
StepOptions == {[maxAge |-> a] : a \in {0, 1}}

\* the frames a caller may hand in: up to `room` new detections, each a new
\* object with a new bbox object, given as the sequence of the bbox values
FrameBoxes(room) == UNION {[1..n -> Boxes] : n \in 0..room}

\* the detections of a frame whose bbox objects are allocated after the
\* first `base` objects of the heap
NewDetections(base, boxes) ==
    [i \in 1..Len(boxes) |-> [bbox |-> base + i, confidence |-> Confidence]]

-----------------------------------------------------------------------------
(* The state machine *)

\* the tracker object held in the variables
Self ==
    [tracks |-> tracks, nextTrackId |-> nextTrackId, maxAge |-> maxAge,
     minHits |-> minHits, iouThreshold |-> iouThreshold, frames |-> <<>>]

\* the ids of a track table, in table order
Ids(ts) == [t \in 1..Len(ts) |-> ts[t].id]

\* the box values of a returned list on the heap h
Values(result, h) == [i \in 1..Len(result) |-> h[result[i].bbox]]

\* the tracks that deleteOldTracks drops from the table ts, each with its id
\* and the value of its box at that moment
Pruned(ts, h, maxAge_) ==
    [t \in {u \in 1..Len(ts) : ~KeepTrack(ts[u], maxAge_)} |->
        [id |-> ts[t].id, box |-> h[ts[t].bbox]]]

\* what is kept of a call: the method called, the frame, the table's ids and
\* nextTrackId before the call, the assignments, for each detection the id of
\* the track it was matched to (-1 for none), the ids minted by detection
\* index, the tracks pruned, the list returned, the table's ids after the
\* call, and whether the call threw
CallRecord(op, detections, before, nextBefore, r) ==
    [op |-> op,
     detections |-> detections,
     beforeIds |-> Ids(before),
     nextBefore |-> nextBefore,
     assignments |-> r.assignments,
     matchedIds |-> [i \in 1..Len(detections) |->
                        IF r.assignments[i] = -1 THEN -1
                        ELSE r.matched[r.assignments[i] + 1].id],
     newTrackMap |-> r.newTrackMap,
     pruned |-> Pruned(r.matched, r.heap, r.self.maxAge),
     result |-> r.result,
     afterIds |-> Ids(r.self.tracks),
     threw |-> r.threw]

\* the tracker variables after new AB3DMOTTracker(options)
ConstructedWith(options) ==
    \E self \in {AB3DMOTTracker(options)} :
        /\ maxAge = self.maxAge
        /\ minHits = self.minHits
        /\ iouThreshold = self.iouThreshold
        /\ tracks = self.tracks
        /\ nextTrackId = self.nextTrackId
        /\ heap = <<>>
        /\ frames = <<>>
        /\ given = <<>>
        /\ outputs = <<>>
        /\ seen = <<>>
        /\ calls = <<>>
        /\ updated = <<>>
        /\ heap2 = <<>>
        /\ batch = <<>>

InitWith(options) ==
    /\ ConstructedWith(options)
    /\ hungarian = <<>>
    /\ geometry = <<>>
    /\ kalman = <<>>

Init == \E options \in StepOptions : InitWith(options)

\* tracker.step(detections) with a new frame
Step ==
    /\ Len(frames) < MaxFrames
    /\ batch = <<>>
    /\ \E boxes \in FrameBoxes(MaxDetections - Len(heap)) :
       \E detections \in {NewDetections(Len(heap), boxes)} :
         \E r \in {step(Self, detections, heap \o boxes)} :
             /\ tracks' = r.self.tracks
             /\ nextTrackId' = r.self.nextTrackId
             /\ heap' = r.heap
             /\ frames' = Append(frames, detections)
             /\ given' = given \o boxes
             /\ outputs' = Append(outputs, r.result)
             /\ seen' = Append(seen, Values(r.result, r.heap))
             /\ calls' = Append(calls, CallRecord("step", detections, tracks,
                                                  nextTrackId, r))
    /\ UNCHANGED helperVars
    /\ UNCHANGED <<maxAge, minHits, iouThreshold, updated, heap2, batch>>

Next == Step

Spec == Init /\ [][Next]_vars

-----------------------------------------------------------------------------
(* Batch runs: after the frames were stepped through one tracker, the same  *)
(* frames are run through fresh trackers of the same configuration.         *)

\* the options that give a tracker the configuration of the one in the
\* variables
SameOptions ==
    [maxAge |-> maxAge, minHits |-> minHits, iouThreshold |-> iouThreshold]

\* what is kept of a batch run: the lists returned and their box values when
\* run returned
BatchRecord(outs, h) ==
    [outputs |-> outs,
     seen |-> [k \in 1..Len(outs) |-> Values(outs[k], h)]]

\* new AB3DMOTTracker({ ...options, data }).run() on frames that are new
\* objects holding the values the stepped frames were given with
RunBatch ==
    /\ frames # <<>>
    /\ batch = <<>>
    /\ \E r \in {run(AB3DMOTTracker(WithData(SameOptions, frames)), given)} :
         /\ heap2' = r.heap
         /\ batch' = <<BatchRecord(r.outputs, r.heap)>>
    /\ UNCHANGED helperVars
    /\ UNCHANGED <<maxAge, minHits, iouThreshold, tracks, nextTrackId, heap,
                   frames, given, outputs, seen, calls, updated>>

\* trackBatch(frames, options) on the very frame objects of the first batch
\* run, as that run left them
RunAgain ==
    /\ Len(batch) = 1
    /\ \E r \in {trackBatch(frames, SameOptions, heap2)} :
         /\ heap2' = r.heap
         /\ batch' = Append(batch, BatchRecord(r.outputs, r.heap))
    /\ UNCHANGED helperVars
    /\ UNCHANGED <<maxAge, minHits, iouThreshold, tracks, nextTrackId, heap,
                   frames, given, outputs, seen, calls, updated>>

NextBatch == Step \/ RunBatch \/ RunAgain

SpecBatch == Init /\ [][NextBatch]_vars

-----------------------------------------------------------------------------
(* The tracker of index.ts driven through step and update *)

\* the options a tracker of index.ts is constructed with: minHits given or
\* left to its default
IndexOptions ==
    {[maxAge |-> 0, minHits |-> 2], [maxAge |-> 1]}

InitIndex == \E options \in IndexOptions : InitWith(options)

\* tracker.step(detections) with a new frame
IndexStep ==
    /\ Len(frames) < MaxFrames
    /\ \E boxes \in FrameBoxes(MaxDetections - Len(heap)) :
       \E detections \in {NewDetections(Len(heap), boxes)} :
         \E r \in {Index_step(Self, detections, heap \o boxes)} :
             /\ tracks' = r.self.tracks
             /\ nextTrackId' = r.self.nextTrackId
             /\ heap' = r.heap
             /\ frames' = Append(frames, detections)
             /\ given' = given \o boxes
             /\ outputs' = Append(outputs, r.result)
             /\ seen' = Append(seen, Values(r.result, r.heap))
             /\ calls' = Append(calls, CallRecord("step", detections, tracks,
                                                  nextTrackId, r))
    /\ UNCHANGED helperVars
    /\ UNCHANGED <<maxAge, minHits, iouThreshold, updated, heap2, batch>>

\* tracker.update(detections) with a new frame
IndexUpdate ==
    /\ Len(frames) < MaxFrames
    /\ \E boxes \in FrameBoxes(MaxDetections - Len(heap)) :
       \E detections \in {NewDetections(Len(heap), boxes)} :
         \E r \in {Index_update(Self, detections, heap \o boxes)} :
             /\ tracks' = r.self.tracks
             /\ nextTrackId' = r.self.nextTrackId
             /\ heap' = r.heap
             /\ frames' = Append(frames, detections)
             /\ given' = given \o boxes
             /\ updated' = r.result
             /\ calls' = Append(calls, CallRecord("update", detections, tracks,
                                                  nextTrackId, r))
    /\ UNCHANGED helperVars
    /\ UNCHANGED <<maxAge, minHits, iouThreshold, outputs, seen, heap2, batch>>

NextIndex == IndexStep \/ IndexUpdate

SpecIndex == InitIndex /\ [][NextIndex]_vars

-----------------------------------------------------------------------------
(* Properties of step                                                      *)

\* the latest call
Last == calls[Len(calls)]

Range(f) == {f[x] : x \in DOMAIN f}

\* the ids a call minted
MintedIn(call) == Range(call.newTrackMap)

\* the ids with which a call returned the detection d of its frame
ReturnedIds(call, d) ==
    {call.result[e].trackId :
        e \in {u \in 1..Len(call.result) : call.result[u].bbox = d.bbox}}

\* C1: every list step returned has the length of its frame, and its i-th
\* element is the i-th detection of the frame with a trackId added, so that
\* no detection is dropped, duplicated or reordered.
C1_OutputKeepsEveryDetection ==
    \A k \in 1..Len(outputs) :
        /\ Len(outputs[k]) = Len(frames[k])
        /\ \A i \in 1..Len(frames[k]) :
              /\ outputs[k][i].bbox = frames[k][i].bbox
              /\ outputs[k][i].confidence = frames[k][i].confidence

\* C2: in every step call a detection that association matched to a track is
\* returned with the id of that very track, and a detection that was not
\* matched is returned with the id minted for it.
C2_ReturnedWithItsTracksId ==
    \A k \in 1..Len(calls) :
        \A i \in 1..Len(calls[k].detections) :
            \A id \in ReturnedIds(calls[k], calls[k].detections[i]) :
                id = IF calls[k].matchedIds[i] # -1
                     THEN calls[k].matchedIds[i]
                     ELSE calls[k].newTrackMap[i - 1]

\* C3: every id in the list step returns for frame k is the id of a track
\* that was in the table before frame k, or an id minted in frame k that is
\* greater than every id minted in an earlier frame.
C3_IdAliveBeforeOrNewlyMinted ==
    \A k \in 1..Len(calls) :
        \A e \in 1..Len(calls[k].result) :
            \/ calls[k].result[e].trackId \in Range(calls[k].beforeIds)
            \/ /\ calls[k].result[e].trackId \in MintedIn(calls[k])
               /\ \A m \in 1..(k - 1) :
                    \A id \in MintedIn(calls[m]) :
                        id < calls[k].result[e].trackId

\* a frame whose list has an id of a track alive before and a minted one
C3_Witness ==
    /\ Len(calls) >= 2
    /\ \E e \in 1..Len(Last.result) :
          Last.result[e].trackId \in Range(Last.beforeIds)
    /\ \E e \in 1..Len(Last.result) :
          Last.result[e].trackId \in MintedIn(Last)

\* C4: the ids of the tracks in the table are pairwise distinct and smaller
\* than nextTrackId, nextTrackId never decreases from call to call, and no id
\* is minted twice.
C4_IdsUniqueAndBelowNext ==
    /\ \A t, u \in 1..Len(tracks) : t # u => tracks[t].id # tracks[u].id
    /\ \A t \in 1..Len(tracks) : tracks[t].id < nextTrackId
    /\ \A k \in 1..Len(calls) :
          calls[k].nextBefore <= IF k = Len(calls) THEN nextTrackId
                                 ELSE calls[k + 1].nextBefore
    /\ \A k, m \in 1..Len(calls) :
          \A i \in DOMAIN calls[k].newTrackMap :
              \A j \in DOMAIN calls[m].newTrackMap :
                  (k # m \/ i # j)
                      => calls[k].newTrackMap[i] # calls[m].newTrackMap[j]

\* a track was deleted in an earlier frame and the latest frame spawned
\* tracks beside one that was already there
C4_Witness ==
    /\ \E k \in 1..(Len(calls) - 1) : calls[k].pruned # <<>>
    /\ Cardinality(MintedIn(Last)) >= 2
    /\ Len(tracks) >= 3

\* whether the track with this id, spawned in frame k, was matched in none
\* of the frames k+1 .. j
NeverMatched(id, k, j) ==
    \A m \in (k + 1)..j : id \notin Range(calls[m].matchedIds)

\* C5: a track spawned in frame k and matched in no later frame is in the
\* table after each of the frames k .. k+maxAge, and after no later frame.
C5_UnmatchedTrackLivesMaxAgeFrames ==
    \A k \in 1..Len(calls) :
        \A id \in MintedIn(calls[k]) :
            \A j \in k..Len(calls) :
                NeverMatched(id, k, j)
                    => (id \in Range(calls[j].afterIds) <=> j - k <= maxAge)

\* with maxAge 1, a track never matched was in the table after the frame of
\* its spawn and after the next frame, and is gone after the one after that
C5_Witness ==
    /\ maxAge = 1
    /\ Len(calls) = 3
    /\ \E id \in MintedIn(calls[1]) :
          /\ NeverMatched(id, 1, 3)
          /\ id \in Range(calls[1].afterIds)
          /\ id \in Range(calls[2].afterIds)
          /\ id \notin Range(calls[3].afterIds)

\* the pruned id p is, from frame k on, in no table and in no returned list
Gone(p, k) ==
    \A m \in k..Len(calls) :
        /\ p.id \notin Range(calls[m].afterIds)
        /\ \A e \in 1..Len(calls[m].result) : calls[m].result[e].trackId # p.id

\* the i-th detection of frame m was handed in with the box value the pruned
\* track p had last
IdenticalToPruned(m, i, p) == given[calls[m].detections[i].bbox] = p.box

\* C6 as stated: a pruned id is in no later table and no later list, and a
\* detection identical to the pruned track's last box that arrives in a
\* later frame is returned with a new id greater than the pruned id.
C6_IdenticalDetectionGetsNewId ==
    \A k \in 1..Len(calls) :
        \A p \in Range(calls[k].pruned) :
            /\ Gone(p, k)
            /\ \A m \in (k + 1)..Len(calls) :
                 \A i \in 1..Len(calls[m].detections) :
                    IdenticalToPruned(m, i, p)
                        => \A id \in ReturnedIds(calls[m], calls[m].detections[i]) :
                              id > p.id /\ id \in MintedIn(calls[m])

\* C6: a pruned id is in no later table and no later list, and a detection
\* identical to the pruned track's last box that arrives in a later frame
\* and is matched to no track still alive is returned with a new id greater
\* than the pruned id.
C6_NoResurrection ==
    \A k \in 1..Len(calls) :
        \A p \in Range(calls[k].pruned) :
            /\ Gone(p, k)
            /\ \A m \in (k + 1)..Len(calls) :
                 \A i \in 1..Len(calls[m].detections) :
                    (IdenticalToPruned(m, i, p) /\ calls[m].matchedIds[i] = -1)
                        => /\ ReturnedIds(calls[m], calls[m].detections[i]) # {}
                           /\ \A id \in ReturnedIds(calls[m],
                                                    calls[m].detections[i]) :
                                 id > p.id /\ id \in MintedIn(calls[m])

\* a track was pruned and a later frame brought a detection identical to its
\* last box, which no live track took and which came back with a higher id
C6_Witness ==
    \E k \in 1..Len(calls) :
        \E p \in Range(calls[k].pruned) :
            \E m \in (k + 1)..Len(calls) :
                \E i \in 1..Len(calls[m].detections) :
                    /\ IdenticalToPruned(m, i, p)
                    /\ calls[m].matchedIds[i] = -1
                    /\ \E id \in ReturnedIds(calls[m], calls[m].detections[i]) :
                          id > p.id

\* C10: the bbox of every detection handed in so far, which is also the bbox
\* of every tracked detection returned so far, has the x, y, z, width,
\* height, length and orientation it was handed in with.
C10_DetectionsUntouched == heap = given

-----------------------------------------------------------------------------
(* Properties of update (index.ts)                                         *)

\* C7: an update call leaves the tracker as a step call with the same frame
\* would (the same pipeline), and returns exactly the tracks of the table
\* after the frame that have hits >= minHits: each returned track is such a
\* track of the table, and no such track of the table is left out.
C7_UpdateReturnsConfirmedTracks ==
    [][(calls' # calls /\ calls'[Len(calls')].op = "update")
        => /\ \E r \in {Index_step(Self, frames'[Len(frames')], heap')} :
                /\ tracks' = r.self.tracks
                /\ nextTrackId' = r.self.nextTrackId
                /\ heap' = r.heap
           /\ \A u \in 1..Len(updated') :
                /\ updated'[u].hits >= minHits
                /\ \E t \in 1..Len(tracks') : tracks'[t] = updated'[u]
           /\ \A t \in 1..Len(tracks') :
                tracks'[t].hits >= minHits
                    => \E u \in 1..Len(updated') : updated'[u] = tracks'[t]
           /\ \A u, v \in 1..Len(updated') :
                u # v => updated'[u].id # updated'[v].id
      ]_vars

\* an update call returned some tracks of the table and held back others
C7_Witness ==
    /\ calls # <<>>
    /\ Last.op = "update"
    /\ updated # <<>>
    /\ Len(updated) < Len(tracks)
    /\ minHits = 2

-----------------------------------------------------------------------------
(* Properties of run and trackBatch                                        *)

\* C8: the lists that run returns on a fresh tracker, and those that
\* trackBatch returns, are the lists that the step calls returned, frame by
\* frame: the same detections with the same trackIds and the same boxes.
C8_RunIsStepByStep ==
    \A b \in 1..Len(batch) :
        /\ batch[b].outputs = outputs
        /\ batch[b].seen = seen

\* C9: a second run over the same frame objects on a fresh tracker of the
\* same configuration returns what the first run returned: the same
\* trackIds and the same detection values, frame by frame.
C9_SecondRunIdentical ==
    Len(batch) = 2 => batch[2] = batch[1]

-----------------------------------------------------------------------------
(* Construction with options of any value                                  *)

\* options a caller may construct a tracker with, among them a negative
\* maxAge, a minHits of 0 and an iouThreshold below 0 and above 1
ConfigOptions ==
    {[maxAge |-> -1], [minHits |-> 0], [iouThreshold |-> -100],
     [iouThreshold |-> 1500], [maxAge |-> 0, minHits |-> 1,
                               iouThreshold |-> 300]}

InitConfig == \E options \in ConfigOptions : InitWith(options)

SpecConfig == InitConfig /\ [][Next]_vars

\* C11: no tracker holds a negative maxAge, a minHits <= 0 or an
\* iouThreshold outside [0, 1]: constructing one with such a value is
\* rejected.
C11_InvalidConfigurationRejected ==
    /\ maxAge >= 0
    /\ minHits > 0
    /\ iouThreshold >= 0
    /\ iouThreshold <= SCALE

-----------------------------------------------------------------------------
(* Further properties of step                                              *)

\* the bookkeeping fields of a track
Brief(track) ==
    [id |-> track.id, age |-> track.age, hits |-> track.hits,
     timeSinceUpdate |-> track.timeSinceUpdate, bbox |-> track.bbox]

\* the bookkeeping fields of a track one frame older and not matched
Older(track) ==
    [id |-> track.id, age |-> track.age + 1, hits |-> track.hits,
     timeSinceUpdate |-> track.timeSinceUpdate + 1, bbox |-> track.bbox]

\* C13: a step call with an empty detection list returns an empty list and
\* mints no id, and the table after it holds, in their order, the tracks of
\* the table before it with age and timeSinceUpdate one higher, except those
\* whose timeSinceUpdate is then above maxAge; a step call on an empty table
\* matches nothing and spawns one track per detection, the ids being
\* consecutive from nextTrackId in input order, and returns them.
C13_EmptyInputs ==
    [][calls' # calls
        => /\ frames'[Len(frames')] = <<>>
                => /\ outputs'[Len(outputs')] = <<>>
                   /\ nextTrackId' = nextTrackId
                   /\ [t \in 1..Len(tracks') |-> Brief(tracks'[t])]
                        = SelectSeq([t \in 1..Len(tracks) |-> Older(tracks[t])],
                                    LAMBDA track :
                                        track.timeSinceUpdate <= maxAge)
           /\ tracks = <<>>
                => /\ Len(tracks') = Len(frames'[Len(frames')])
                   /\ Len(outputs'[Len(outputs')]) = Len(frames'[Len(frames')])
                   /\ \A i \in 1..Len(tracks') :
                        /\ tracks'[i].id = nextTrackId + i - 1
                        /\ tracks'[i].bbox = frames'[Len(frames')][i].bbox
                        /\ tracks'[i].hits = 1
                        /\ outputs'[Len(outputs')][i].trackId = tracks'[i].id
                        /\ outputs'[Len(outputs')][i].bbox = tracks'[i].bbox
                        /\ calls'[Len(calls')].matchedIds[i] = -1
      ]_vars

\* the first frame spawned two tracks on the empty table, and the latest
\* frame was empty, aged a track that stayed and pruned another
C13_Witness ==
    /\ Len(calls) >= 2
    /\ Len(calls[1].detections) >= 2
    /\ Last.detections = <<>>
    /\ Last.pruned # <<>>
    /\ tracks # <<>>

-----------------------------------------------------------------------------
(* The usage example of the README                                         *)

\* a box of size (2, 2, 2) at (x_, y_, z_)
BoxAt(x_, y_, z_) ==
    [x |-> x_, y |-> y_, z |-> z_, width |-> 2 * SCALE,
     height |-> 2 * SCALE, length |-> 2 * SCALE, orientation |-> 0]

\* the two boxes of the example: at (0, 0, 0) and at (0.2, 0.0, 0.1)
ReadmeFirst == BoxAt(0, 0, 0)

ReadmeSecond == BoxAt(200, 0, 100)

ReadmeBoxes == {ReadmeFirst, ReadmeSecond}

\* the options of the example's trackers, and no options
ReadmeOptions ==
    {<<>>,
     [maxAge |-> 3, minHits |-> 3, iouThreshold |-> 300],
     [maxAge |-> 3, minHits |-> 2, iouThreshold |-> 300]}

ReadmeFrameBoxes(room) == UNION {[1..n -> ReadmeBoxes] : n \in 0..room}

InitReadme == \E options \in ReadmeOptions : InitWith(options)

\* tracker.step(detections) with a new frame of the example's boxes
ReadmeStep ==
    /\ Len(frames) < MaxFrames
    /\ \E boxes \in ReadmeFrameBoxes(MaxDetections - Len(heap)) :
       \E detections \in {NewDetections(Len(heap), boxes)} :
         \E r \in {step(Self, detections, heap \o boxes)} :
             /\ tracks' = r.self.tracks
             /\ nextTrackId' = r.self.nextTrackId
             /\ heap' = r.heap
             /\ frames' = Append(frames, detections)
             /\ given' = given \o boxes
             /\ outputs' = Append(outputs, r.result)
             /\ seen' = Append(seen, Values(r.result, r.heap))
             /\ calls' = Append(calls, CallRecord("step", detections, tracks,
                                                  nextTrackId, r))
    /\ UNCHANGED helperVars
    /\ UNCHANGED <<maxAge, minHits, iouThreshold, updated, heap2, batch>>

NextReadme == ReadmeStep

SpecReadme == InitReadme /\ [][NextReadme]_vars

\* the first two frames are the example's: one detection at (0, 0, 0), then
\* one detection at (0.2, 0, 0.1)
ReadmeScenario ==
    /\ Len(frames) >= 2
    /\ Len(frames[1]) = 1
    /\ Len(frames[2]) = 1
    /\ given[frames[1][1].bbox] = ReadmeFirst
    /\ given[frames[2][1].bbox] = ReadmeSecond

\* C14: with iouThreshold 0.3, the example's first frame returns exactly one
\* tracked detection, with trackId 1, and its second frame returns exactly
\* one tracked detection, with trackId 1 again.
C14_ReadmeReusesTrackId ==
    (ReadmeScenario /\ iouThreshold = DefaultIouThreshold)
        => /\ Len(outputs[1]) = 1
           /\ outputs[1][1].trackId = 1
           /\ outputs[1][1].bbox = frames[1][1].bbox
           /\ Len(outputs[2]) = 1
           /\ outputs[2][1].trackId = 1
           /\ outputs[2][1].bbox = frames[2][1].bbox

C14_Witness ==
    /\ ReadmeScenario
    /\ iouThreshold = DefaultIouThreshold
    /\ Len(outputs) = 2
    /\ nextTrackId = 2

(***************************************************************************)
(* src/unnamed/part_002: HungarianAlgorithm.  Rows and columns are counted *)
(* from 0 as in the source; an assignment holds a column per row, -1 for   *)
(* none.                                                                   *)
(***************************************************************************)
MaxSize == 2
MaxCost == 2

\* Array.prototype.slice(0, end)
SliceTo(a, end) == SubSeq(a, 1, MathMin(end, Len(a)))

\* Math.min(...row)
MinOf(row) == CHOOSE v \in {row[k] : k \in 1..Len(row)} :
                  \A k \in 1..Len(row) : v <= row[k]

padMatrix(costMatrix, size) ==
    NewArray([i \in 1..size |->
        NewArray([j \in 1..size |->
            IF i <= Len(costMatrix) /\ j <= Len(costMatrix[i])
            THEN costMatrix[i][j] ELSE 0])])

HungarianAlgorithm(costMatrix) ==
    Only({ [costMatrix |-> padMatrix(costMatrix, size), size |-> size] :
           size \in {MathMax(Len(costMatrix),
                             IF costMatrix = <<>> THEN 0 ELSE Len(costMatrix[1]))} })

reduceRows(m, size) ==
    NewArray([i \in 1..size |->
        Only({ NewArray([j \in 1..size |-> m[i][j] - minVal]) :
               minVal \in {MinOf(m[i])} })])

reduceColumns(m, size) ==
    Only({ NewArray([i \in 1..size |-> NewArray([j \in 1..size |-> m[i][j] - mins[j]])]) :
           mins \in {[j \in 1..size |-> MinOf([i \in 1..size |-> m[i][j]])]} })

\* the double loop of findInitialAssignment from cell (i, j) on: no break
\* after a row is assigned, the row is skipped through rowCovered
RECURSIVE findInitialFrom(_, _, _, _, _, _, _)
findInitialFrom(m, size, i, j, assignment, rowCovered, colCovered) ==
    IF i >= size THEN assignment
    ELSE IF j >= size
    THEN findInitialFrom(m, size, i + 1, 0, assignment, rowCovered, colCovered)
    ELSE IF m[i + 1][j + 1] = 0 /\ ~rowCovered[i + 1] /\ ~colCovered[j + 1]
    THEN findInitialFrom(m, size, i, j + 1,
                         [assignment EXCEPT ![i + 1] = j],
                         [rowCovered EXCEPT ![i + 1] = TRUE],
                         [colCovered EXCEPT ![j + 1] = TRUE])
    ELSE findInitialFrom(m, size, i, j + 1, assignment, rowCovered, colCovered)

findInitialAssignment(m, size) ==
    findInitialFrom(m, size, 0, 0,
                    [i \in 1..size |-> -1],
                    [i \in 1..size |-> FALSE],
                    [j \in 1..size |-> FALSE])

\* the second double loop of augmentPath from cell (i, j) on: a covered row
\* is skipped, and the inner loop breaks at the first uncovered zero
RECURSIVE augmentFrom(_, _, _, _, _, _, _)
augmentFrom(m, size, i, j, assignment, rowCovered, colCovered) ==
    IF i >= size THEN assignment
    ELSE IF rowCovered[i + 1] \/ j >= size
    THEN augmentFrom(m, size, i + 1, 0, assignment, rowCovered, colCovered)
    ELSE IF ~colCovered[j + 1] /\ m[i + 1][j + 1] = 0
    THEN augmentFrom(m, size, i + 1, 0,
                     [assignment EXCEPT ![i + 1] = j],
                     [rowCovered EXCEPT ![i + 1] = TRUE],
                     [colCovered EXCEPT ![j + 1] = TRUE])
    ELSE augmentFrom(m, size, i, j + 1, assignment, rowCovered, colCovered)

augmentPath(m, size, assignment) ==
    SliceTo(augmentFrom(m, size, 0, 0, assignment,
                        [i \in 1..size |-> assignment[i] # -1],
                        [j \in 1..size |-> \E i \in 1..size : assignment[i] = j - 1]),
            Len(m))

\* solve() of the object h; this.costMatrix is the padded matrix
solve(h) ==
    Only({ IF Cardinality({i \in 1..Len(assignment) : assignment[i] # -1}) < h.size
           THEN augmentPath(m, h.size, assignment)
           ELSE SliceTo(assignment, Len(m)) :
           m \in {reduceColumns(reduceRows(h.costMatrix, h.size), h.size)},
           assignment \in {findInitialAssignment(
                               reduceColumns(reduceRows(h.costMatrix, h.size), h.size),
                               h.size)} })

CostMatrices ==
    {<<>>} \cup UNION {[1..r -> [1..c -> 0..MaxCost]] : r \in 1..MaxSize, c \in 1..MaxSize}

InitHungarian ==
    /\ ConstructedWith(<<>>)
    /\ hungarian \in {[costMatrix |-> m, solved |-> FALSE, assignment |-> <<>>] :
                      m \in CostMatrices}
    /\ geometry = <<>>
    /\ kalman = <<>>

\* new HungarianAlgorithm(costMatrix).solve()
Solve ==
    /\ ~hungarian.solved
    /\ hungarian' = [hungarian EXCEPT
                        !.solved = TRUE,
                        !.assignment = solve(HungarianAlgorithm(hungarian.costMatrix))]
    /\ UNCHANGED trackerVars
    /\ UNCHANGED <<geometry, kalman>>

NextHungarian == Solve

SpecHungarian == InitHungarian /\ [][NextHungarian]_vars

\* the column solve() gave row i of the caller's matrix, -1 when it gave none
\* or one of the padded columns
ColumnOf(costMatrix, assignment, i) ==
    IF i <= Len(assignment) /\ assignment[i] >= 0 /\ assignment[i] < Len(costMatrix[i])
    THEN assignment[i] ELSE -1

\* the one-to-one assignments of the caller's matrix that leave no row
\* unassigned while a column is free
FullAssignments(costMatrix) ==
    {f \in [1..Len(costMatrix) -> -1..(Len(costMatrix[1]) - 1)] :
        /\ \A i, k \in 1..Len(costMatrix) : (i # k /\ f[i] # -1) => f[i] # f[k]
        /\ Cardinality({i \in 1..Len(costMatrix) : f[i] # -1})
               = MathMin(Len(costMatrix), Len(costMatrix[1]))}

RECURSIVE TotalCostFrom(_, _, _)
TotalCostFrom(costMatrix, f, i) ==
    IF i > Len(costMatrix) THEN 0
    ELSE (IF f[i] = -1 THEN 0 ELSE costMatrix[i][f[i] + 1])
         + TotalCostFrom(costMatrix, f, i + 1)

TotalCost(costMatrix, f) == TotalCostFrom(costMatrix, f, 1)

\* C15: solve() returns a one-to-one assignment of rows to columns whose
\* total cost is minimal, and leaves a row unassigned only when no column
\* is left for it.
C15_SolveIsMinimalAssignment ==
    (hungarian.solved /\ hungarian.costMatrix # <<>>) =>
        \E f \in FullAssignments(hungarian.costMatrix) :
            /\ \A i \in 1..Len(hungarian.costMatrix) :
                   f[i] = ColumnOf(hungarian.costMatrix, hungarian.assignment, i)
            /\ \A g \in FullAssignments(hungarian.costMatrix) :
                   TotalCost(hungarian.costMatrix, f) <= TotalCost(hungarian.costMatrix, g)


(***************************************************************************)
(* src/src_old/utils.ts: calculate3DIoU called on two boxes.               *)
(***************************************************************************)
MaxOffset == 1
MaxExtent == 2

\* centres at multiples of 0.5 along x; widths from -1 to MaxExtent, lengths
\* -1 and MaxExtent, height 2
GeometryBoxes ==
    {[x |-> (SCALE \div 2) * o, y |-> 0, z |-> 0, width |-> w * SCALE,
      height |-> 2 * SCALE, length |-> l * SCALE, orientation |-> 0] :
        o \in 0..MaxOffset, w \in -1..MaxExtent, l \in {-1, MaxExtent}}

InitGeometry ==
    /\ ConstructedWith(<<>>)
    /\ hungarian = <<>>
    /\ geometry \in {[bbox1 |-> a, bbox2 |-> b, done |-> FALSE, iou |-> 0,
                      doneSwapped |-> FALSE, iouSwapped |-> 0] :
                     a \in GeometryBoxes, b \in GeometryBoxes}
    /\ kalman = <<>>

\* calculate3DIoU(bbox1, bbox2)
Calculate ==
    /\ ~geometry.done
    /\ geometry' = [geometry EXCEPT
                       !.done = TRUE,
                       !.iou = calculate3DIoU(geometry.bbox1, geometry.bbox2)]
    /\ UNCHANGED trackerVars
    /\ UNCHANGED <<hungarian, kalman>>

\* calculate3DIoU(bbox2, bbox1)
CalculateSwapped ==
    /\ ~geometry.doneSwapped
    /\ geometry' = [geometry EXCEPT
                       !.doneSwapped = TRUE,
                       !.iouSwapped = calculate3DIoU(geometry.bbox2, geometry.bbox1)]
    /\ UNCHANGED trackerVars
    /\ UNCHANGED <<hungarian, kalman>>

NextGeometry == Calculate \/ CalculateSwapped

SpecGeometry == InitGeometry /\ [][NextGeometry]_vars

PositiveExtents(bbox) == bbox.width > 0 /\ bbox.height > 0 /\ bbox.length > 0

NonNegativeExtents(bbox) == bbox.width >= 0 /\ bbox.height >= 0 /\ bbox.length >= 0

Volume(bbox) == FMul(FMul(bbox.width, bbox.height), bbox.length)

UnionVolume(bbox1, bbox2) ==
    Volume(bbox1) + Volume(bbox2) - calculateIntersection3D(bbox1, bbox2)

C17_IoUSymmetric ==
    (geometry.done /\ geometry.doneSwapped) => geometry.iou = geometry.iouSwapped

C17_Witness ==
    /\ geometry.done
    /\ geometry.doneSwapped
    /\ geometry.bbox1.x # geometry.bbox2.x
    /\ geometry.bbox1.width # geometry.bbox2.width
    /\ geometry.iou > 0
    /\ geometry.iou = geometry.iouSwapped

MaxCalls == 3

\* the intervals predict is called with, and the measured positions
Intervals == {0, SCALE \div 2, FrameDt}

Measurements == {<<b.x, b.y, b.z>> : b \in Boxes}

\* new KalmanFilter3D(initialBbox, 0.1, measurementNoise), the measurement
\* noise being the tracker's 0.1 or 0 (measurements taken as exact)
InitKalman ==
    /\ ConstructedWith(<<>>)
    /\ hungarian = <<>>
    /\ geometry = <<>>
    /\ kalman \in {[kf |-> kf0, before |-> kf0, op |-> "new", dt |-> 0,
                    threw |-> FALSE, n |-> 0] :
                   kf0 \in {KalmanFilter3D(b, ProcessNoise, r) :
                                b \in Boxes, r \in {MeasurementNoise, 0}}}

\* kf.predict(dt)
Predict ==
    /\ kalman.n < MaxCalls
    /\ \E dt \in Intervals :
           kalman' = [kf |-> predict(kalman.kf, dt), before |-> kalman.kf,
                      op |-> "predict", dt |-> dt, threw |-> FALSE,
                      n |-> kalman.n + 1]
    /\ UNCHANGED trackerVars
    /\ UNCHANGED <<hungarian, geometry>>

\* kf.update(measurement)
Update ==
    /\ kalman.n < MaxCalls
    /\ \E measurement \in Measurements :
         \E u \in {update(kalman.kf, measurement)} :
           kalman' = [kf |-> u.kf, before |-> kalman.kf,
                      op |-> "update", dt |-> 0, threw |-> u.threw,
                      n |-> kalman.n + 1]
    /\ UNCHANGED trackerVars
    /\ UNCHANGED <<hungarian, geometry>>

NextKalman == Predict \/ Update

SpecKalman == InitKalman /\ [][NextKalman]_vars

\* C19: predict(0) leaves the state vector and the covariance matrix exactly
\* as they were, whatever predict and update calls came before.
C19_PredictZeroChangesNothing ==
    (kalman.op = "predict" /\ kalman.dt = 0) =>
        /\ kalman.kf.state = kalman.before.state
        /\ kalman.kf.covariance = kalman.before.covariance

C19_Witness ==
    /\ kalman.op = "predict"
    /\ kalman.dt = 0
    /\ kalman.n = MaxCalls
    /\ kalman.before.state[4] # 0
    /\ kalman.before.covariance[1][4] # 0
    /\ kalman.before.covariance # KalmanFilter3D(Box(0), ProcessNoise, MeasurementNoise).covariance
    /\ kalman.kf.state = kalman.before.state
    /\ kalman.kf.covariance = kalman.before.covariance


(***************************************************************************)
(* Pruning by step                                                         *)
(***************************************************************************)
\* the timeSinceUpdate of a track of the table before a step call, after the
\* call's prediction and matching: 0 when a detection was matched to it, one
\* more than before otherwise
AfterMatching(track, call) ==
    IF track.id \in Range(call.matchedIds) THEN 0 ELSE track.timeSinceUpdate + 1

\* C20: after a step call no track of the table has timeSinceUpdate above
\* maxAge, and a track of the table before the call is missing after it only
\* if its timeSinceUpdate after prediction and matching is above maxAge.
C20_PrunedIffTooOld ==
    [][calls' # calls
        => /\ \A t \in 1..Len(tracks') : tracks'[t].timeSinceUpdate <= maxAge
           /\ \A t \in 1..Len(tracks) :
                (\A u \in 1..Len(tracks') : tracks'[u].id # tracks[t].id)
                    => AfterMatching(tracks[t], calls'[Len(calls')]) > maxAge]_vars

\* with maxAge 1 the third call matched nothing, dropped a track that was
\* last matched two frames before and kept one matched in the frame before
C20_Witness ==
    /\ maxAge = 1
    /\ Len(calls) = 3
    /\ \A i \in 1..Len(calls[3].matchedIds) : calls[3].matchedIds[i] = -1
    /\ \E id \in Range(calls[2].afterIds) : id \notin Range(calls[3].afterIds)
    /\ \E t \in 1..Len(tracks) :
          /\ tracks[t].id \in Range(calls[2].afterIds)
          /\ tracks[t].timeSinceUpdate = maxAge


(***************************************************************************)
(* The bookkeeping fields of a track over the frames                       *)
(***************************************************************************)
\* whether the latest step call matched a detection to the track
MatchedNow(track) == track.id \in Range(calls'[Len(calls')].matchedIds)

\* C21: of the tracks in the table after a step call, one that was in the
\* table before has timeSinceUpdate 0 if and only if a detection of the frame
\* was matched to it, and otherwise one more than before; one that the call
\* created has timeSinceUpdate 0.
C21_TimeSinceUpdateResetOnMatch ==
    [][calls' # calls
        => \A u \in 1..Len(tracks') :
             /\ \A t \in 1..Len(tracks) :
                  tracks[t].id = tracks'[u].id
                    => /\ tracks'[u].timeSinceUpdate = 0 <=> MatchedNow(tracks[t])
                       /\ ~MatchedNow(tracks[t])
                            => tracks'[u].timeSinceUpdate
                                 = tracks[t].timeSinceUpdate + 1
             /\ (\A t \in 1..Len(tracks) : tracks[t].id # tracks'[u].id)
                    => tracks'[u].timeSinceUpdate = 0]_vars

\* after the second call the table holds a track of the first call that was
\* matched and one that was not
C21_Witness ==
    /\ Len(calls) = 2
    /\ \E t, u \in 1..Len(tracks) :
          /\ tracks[t].id \in Range(calls[1].afterIds)
          /\ tracks[u].id \in Range(calls[1].afterIds)
          /\ tracks[t].id \in Range(calls[2].matchedIds)
          /\ tracks[t].timeSinceUpdate = 0
          /\ tracks[u].id \notin Range(calls[2].matchedIds)
          /\ tracks[u].timeSinceUpdate = 1

\* C22: a track in the table after frame k that was created in frame c has
\* age k - c + 1: age 1 in the frame of its creation, and one more after
\* every later frame, matched or not.
C22_AgeCountsFrames ==
    \A t \in 1..Len(tracks) :
        \E c \in 1..Len(calls) :
            /\ tracks[t].id \in MintedIn(calls[c])
            /\ tracks[t].age = Len(calls) - c + 1

\* a track of the first frame in the table after the third, matched in one
\* of the later frames and not in the other, beside a track just created
C22_Witness ==
    /\ Len(calls) = 3
    /\ \E t, u \in 1..Len(tracks) :
          /\ tracks[t].id \in MintedIn(calls[1])
          /\ tracks[t].age = 3
          /\ tracks[t].hits = 2
          /\ tracks[u].id \in MintedIn(calls[3])
          /\ tracks[u].age = 1

\* C23: of the tracks in the table after a step call, one that the call
\* created has hits 1, and one that was in the table before has one more hit
\* than before if a detection of the frame was matched to it and as many as
\* before if not.
C23_HitsCountMatches ==
    [][calls' # calls
        => \A u \in 1..Len(tracks') :
             /\ \A t \in 1..Len(tracks) :
                  tracks[t].id = tracks'[u].id
                    => tracks'[u].hits
                         = tracks[t].hits + (IF MatchedNow(tracks[t]) THEN 1 ELSE 0)
             /\ (\A t \in 1..Len(tracks) : tracks[t].id # tracks'[u].id)
                    => tracks'[u].hits = 1]_vars

\* a track matched in two frames after its creation, beside one that was
\* created later and not matched since
C23_Witness ==
    /\ Len(calls) = 3
    /\ \E t, u \in 1..Len(tracks) :
          /\ tracks[t].hits = 3
          /\ tracks[t].id \in Range(calls[2].matchedIds)
          /\ tracks[t].id \in Range(calls[3].matchedIds)
          /\ tracks[u].hits = 1
          /\ tracks[u].age = 2


(***************************************************************************)
(* Association in step                                                     *)
(***************************************************************************)
\* the overlap that associateDetections computed for the i-th detection of
\* the latest frame and the track of index t: the boxes as they are after
\* predictTracks, which is how the heap holds them when step returns
OverlapNow(i, t) ==
    calculate3DIoU(heap'[frames'[Len(frames')][i].bbox], heap'[tracks[t + 1].bbox])

\* the track indices taken by the detections before the i-th
TakenBefore(assignments, i) == {assignments[j] : j \in 1..(i - 1)} \ {-1}

ThresholdOptions == {[maxAge |-> 1, iouThreshold |-> 0], [maxAge |-> 1]}

InitThreshold == \E options \in ThresholdOptions : InitWith(options)

SpecThreshold == InitThreshold /\ [][Next]_vars

\* C25: in a step call a detection is matched to a track only if their
\* overlap is strictly above iouThreshold, so that a detection that overlaps
\* no track, or overlaps by exactly iouThreshold, is left unmatched and a
\* track is created for it.
C25_MatchedOnlyAboveThreshold ==
    [][calls' # calls
        => \A i \in 1..Len(calls'[Len(calls')].assignments) :
             /\ calls'[Len(calls')].assignments[i] # -1
                  => OverlapNow(i, calls'[Len(calls')].assignments[i]) > iouThreshold
             /\ (\A t \in 0..(Len(tracks) - 1) : OverlapNow(i, t) <= iouThreshold)
                  => /\ calls'[Len(calls')].assignments[i] = -1
                     /\ (i - 1) \in DOMAIN calls'[Len(calls')].newTrackMap]_vars


(***************************************************************************)
(* The tracker of index.ts constructed with a maxAge below 0, which the    *)
(* constructor takes as it is, or with maxAge 0                            *)
(***************************************************************************)
IndexConfigOptions == {[maxAge |-> -1], [maxAge |-> 0, minHits |-> 1]}

InitIndexConfig == \E options \in IndexConfigOptions : InitWith(options)

SpecIndexConfig == InitIndexConfig /\ [][NextIndex]_vars

\* C26: step prunes before it spawns, so that a track spawned by a step call
\* is not looked at by the pruning of that call: when the call returns the
\* track is in the table with age 1, hits 1 and timeSinceUpdate 0.
C26_SpawnedTrackNotPruned ==
    (calls # <<>> /\ Last.op = "step") =>
        \A id \in MintedIn(Last) :
            \E t \in 1..Len(tracks) :
                /\ tracks[t].id = id
                /\ tracks[t].age = 1
                /\ tracks[t].hits = 1
                /\ tracks[t].timeSinceUpdate = 0


(***************************************************************************)
(* The shape of what solve() returns                                       *)
(***************************************************************************)
\* C27: for a cost matrix of r rows and c columns solve() returns r entries,
\* one per row, each of them -1 or the index of one of the c columns, never
\* the index of a column that padMatrix added.
C27_OneEntryPerRowNoPaddingColumn ==
    hungarian.solved =>
        /\ Len(hungarian.assignment) = Len(hungarian.costMatrix)
        /\ \A i \in 1..Len(hungarian.assignment) :
              /\ i <= Len(hungarian.costMatrix)
              /\ hungarian.assignment[i] >= -1
              /\ hungarian.assignment[i] < Len(hungarian.costMatrix[i])


(***************************************************************************)
(* The ids within one returned list                                        *)
(***************************************************************************)
\* C28: in every list that step returned the trackIds are pairwise distinct:
\* no two detections of a frame are returned with the same track id.
C28_IdsDistinctWithinFrame ==
    \A k \in 1..Len(outputs) :
        \A e, f \in 1..Len(outputs[k]) :
            e # f => outputs[k][e].trackId # outputs[k][f].trackId


(***************************************************************************)
(* update on a singular innovation covariance                              *)
(***************************************************************************)
\* S = H * P * H^T + R of the filter kf: the position block of the
\* covariance with the measurement noise added on the diagonal
InnovationCovariance(kf) ==
    [i \in 1..3 |-> [j \in 1..3 |->
        kf.covariance[i][j] + (IF i = j THEN kf.measurementNoise ELSE 0)]]

\* the determinant of a 3x3 matrix by cofactor expansion along the first row
Determinant(A) ==
      FMul(A[1][1], FMul(A[2][2], A[3][3]) - FMul(A[2][3], A[3][2]))
    - FMul(A[1][2], FMul(A[2][1], A[3][3]) - FMul(A[2][3], A[3][1]))
    + FMul(A[1][3], FMul(A[2][1], A[3][2]) - FMul(A[2][2], A[3][1]))

\* C29: update fails with the singular-matrix error whenever the absolute
\* determinant of the innovation covariance is below the tolerance, and a
\* failed update leaves the state vector and the covariance as they were.
C29_SingularUpdateFailsAndChangesNothing ==
    kalman.op = "update" =>
        /\ BelowSingularTolerance(Determinant(InnovationCovariance(kalman.before)))
             => kalman.threw
        /\ kalman.threw
             => /\ kalman.kf.state = kalman.before.state
                /\ kalman.kf.covariance = kalman.before.covariance

\* an update that failed on a filter whose earlier update had brought the
\* position covariance to 0
C29_Witness ==
    /\ kalman.op = "update"
    /\ kalman.threw
    /\ kalman.n >= 2
    /\ kalman.before.measurementNoise = 0
    /\ kalman.before.covariance[1][1] = 0
    /\ kalman.kf.state = kalman.before.state
    /\ kalman.kf.covariance = kalman.before.covariance

=========================================================================
